---- MODULE Spec2Model ----
(***************************************************************************)
(* Model of Travel/make_thumbs.py: a batch thumbnail generator that runs   *)
(* one process_one job per discovered video on a ThreadPoolExecutor and    *)
(* collects the results with as_completed.                                 *)
(*                                                                         *)
(* File names are sequences of tokens (the dot is a token of its own), a   *)
(* tile spec is a sequence of characters, and a duration is a rational     *)
(* num/den.  External tools (ffprobe, ffmpeg, the temp-file system calls)  *)
(* are nondeterministic choices over their possible outcomes.              *)
(***************************************************************************)
EXTENDS Integers, Sequences, FiniteSets, TLC

\* ------------------------------------------------------------------ bounds
MaxFiles == 3        \* entries in the input directory
MaxJobsArg == 2      \* largest --jobs value
MaxTileLen == 3      \* characters of a --tile value (GridSpec)
MaxDurNum == 3       \* numerator of a probed duration
MaxDurDen == 2       \* denominator of a probed duration

\* --------------------------------------------------------------- constants
Width == 1280

Modes == {"smart", "middle", "styled", "grid"}

VIDEO_EXTS == {<<".", "mp4">>, <<".", "mov">>, <<".", "mkv">>,
               <<".", "avi">>, <<".", "m4v">>, <<".", "webm">>}

\* The names a directory entry may have, in the order files.sort() gives
\* them ('.' < 'M' < 'a' < 'm' in code-point order).
SortedUniverse == << <<".", "mp4">>,
                     <<"a", ".", "MOV">>,
                     <<"a", ".", "mp4">>,
                     <<"b", ".", "mkv">>,
                     <<"note", ".", "txt">> >>

Universe == {SortedUniverse[i] : i \in 1..Len(SortedUniverse)}

DefaultTile == <<"3", "x", "3">>

\* --tile values of the whole-run specification: the default, another valid
\* one, an upper-case separator, a zero dimension, and a spec with one part.
CoreTiles == {DefaultTile, <<"2", "X", "1">>, <<"0", "x", "3">>, <<"3">>}

TileChars == {"0", "1", "2", "-", "x", "X", "a"}

AllTiles == UNION {[1..n -> TileChars] : n \in 0..MaxTileLen}

\* ------------------------------------------------------------ pure helpers
Max(a, b) == IF a >= b THEN a ELSE b

\* str.lower() on one token
LowerTok(t) ==
  CASE t = "MOV" -> "mov"
    [] t = "X" -> "x"
    [] OTHER -> t

LowerSeq(s) == [i \in 1..Len(s) |-> LowerTok(s[i])]

\* str.rfind on tokens: the last index of tok in s, 0 when absent
RFind(s, tok) ==
  LET hits == {i \in 1..Len(s) : s[i] = tok}
  IN IF hits = {} THEN 0 ELSE CHOOSE i \in hits : \A k \in hits : k <= i

\* pathlib's suffix: from the last dot, unless the dot leads or ends the name
Suffix(name) ==
  LET i == RFind(name, ".")
  IN IF 1 < i /\ i < Len(name) THEN SubSeq(name, i, Len(name)) ELSE <<>>

\* pathlib's stem: the name without its suffix
Stem(name) ==
  LET i == RFind(name, ".")
  IN IF 1 < i /\ i < Len(name) THEN SubSeq(name, 1, i - 1) ELSE name

IsVideo(name) == LowerSeq(Suffix(name)) \in VIDEO_EXTS

list_videos(folder) ==
  SelectSeq(SortedUniverse, LAMBDA p : p \in folder /\ IsVideo(p))

OutPath(name, m) ==
  IF m = "grid" THEN Stem(name) \o <<"_grid", ".jpg">>
  ELSE Stem(name) \o <<".jpg">>

OutPaths == {OutPath(n, m) : n \in {u \in Universe : IsVideo(u)}, m \in Modes}

\* ------------------------------------------------------------- tile parsing
Digits == {"0", "1", "2", "3", "4", "5", "6", "7", "8", "9"}

DigitVal(c) ==
  CASE c = "0" -> 0 [] c = "1" -> 1 [] c = "2" -> 2 [] c = "3" -> 3
    [] c = "4" -> 4 [] c = "5" -> 5 [] c = "6" -> 6 [] c = "7" -> 7
    [] c = "8" -> 8 [] c = "9" -> 9

RECURSIVE DigitsVal(_)
DigitsVal(s) ==
  IF s = <<>> THEN 0
  ELSE DigitsVal(SubSeq(s, 1, Len(s) - 1)) * 10 + DigitVal(s[Len(s)])

\* str.split("x"): the parts between the separators, empty parts kept
RECURSIVE Split(_)
Split(s) ==
  LET hits == {i \in 1..Len(s) : s[i] = "x"}
  IN IF hits = {} THEN <<s>>
     ELSE LET i == CHOOSE h \in hits : \A k \in hits : h <= k
          IN <<SubSeq(s, 1, i - 1)>> \o Split(SubSeq(s, i + 1, Len(s)))

\* int(s) on the modelled characters: an optional minus sign, then digits
py_int(s) ==
  LET neg == s # <<>> /\ s[1] = "-"
      body == IF neg THEN Tail(s) ELSE s
      ok == body # <<>> /\ \A i \in 1..Len(body) : body[i] \in Digits
  IN [ok |-> ok,
      val |-> IF ok THEN (IF neg THEN 0 - DigitsVal(body) ELSE DigitsVal(body))
              ELSE 0]

BadTile == [ok |-> FALSE, cols |-> 0, rows |-> 0]

\* faulty variant: the assertion checks the columns only
TileOfColsOnly(c, r) ==
  IF c.ok /\ r.ok /\ c.val > 0
  THEN [ok |-> TRUE, cols |-> c.val, rows |-> r.val]
  ELSE BadTile

\* int() of both parts, then the assertion; BadTile stands for the ValueError
TileOf(c, r) ==
  IF c.ok /\ r.ok /\ c.val > 0 /\ r.val > 0
  THEN [ok |-> TRUE, cols |-> c.val, rows |-> r.val]
  ELSE BadTile

\* cols, rows = parts: anything but two parts fails to unpack
ParseParts(parts) ==
  IF Len(parts) # 2 THEN BadTile
  ELSE CHOOSE t \in {TileOf(c, r) : c \in {py_int(parts[1])}, r \in {py_int(parts[2])}} : TRUE

\* the try block of build_grid_cmd
ParseTile(tile) ==
  CHOOSE t \in {ParseParts(parts) : parts \in {Split(LowerSeq(tile))}} : TRUE

\* ---------------------------------------------------------------- durations
ZeroDur == [num |-> 0, den |-> 1]

\* num/den is in lowest terms: one record per number
Reduced(n, d) == \A k \in 2..d : ~(n % k = 0 /\ d % k = 0)

\* what ffprobe may print: nothing usable, or a number num/den
ProbeOutputs ==
  {[ok |-> FALSE, num |-> 0, den |-> 1]} \cup
  {r \in {[ok |-> TRUE, num |-> n, den |-> d] :
            n \in (0 - 1)..MaxDurNum, d \in 1..MaxDurDen} : Reduced(r.num, r.den)}

ffprobe_duration(raw) ==
  IF ~raw.ok THEN ZeroDur
  ELSE IF raw.num < 0 THEN ZeroDur
  ELSE [num |-> raw.num, den |-> raw.den]

\* math.ceil(a / b) for a >= 0, b > 0
CeilDiv(a, b) == (a + b - 1) \div b

\* faulty variant: the quotient is truncated instead of rounded up
GridFpsFloor(total, dur) ==
  IF dur.num <= 0 THEN 1 ELSE Max(1, (total * dur.den) \div dur.num)

GridFps(total, dur) ==
  IF dur.num <= 0 THEN 1 ELSE Max(1, CeilDiv(total * dur.den, dur.num))

NoCmd == [kind |-> "none", cols |-> 0, rows |-> 0, total |-> 0, cellw |-> 0,
          dur |-> ZeroDur, fps |-> 0]

build_smart_cmd == [NoCmd EXCEPT !.kind = "smart"]

build_middle_cmd(dur) == [NoCmd EXCEPT !.kind = "middle", !.dur = dur]

styled_cmd == [NoCmd EXCEPT !.kind = "styled"]

\* build_grid_cmd after a successful parse p, with the probed duration dur
build_grid_cmd(p, dur) ==
  [kind |-> "grid", cols |-> p.cols, rows |-> p.rows,
   total |-> p.cols * p.rows,
   cellw |-> Max(1, Width \div p.cols),
   dur |-> dur,
   fps |-> GridFps(p.cols * p.rows, dur)]

\* ------------------------------------------------------ process_one's head
\* faulty variant: no skip-if-exists check
DispatchNoSkip(exists, m, t) ==
  CASE m = "smart" -> "run"
    [] m = "middle" -> "probe"
    [] m = "styled" -> "mktmp"
    [] m = "grid" -> IF ParseTile(t).ok THEN "probe" ELSE "raised"

\* faulty variant: the tile spec is validated before the output is looked for
DispatchValidateFirst(exists, m, t) ==
  IF m = "grid" /\ ~ParseTile(t).ok THEN "raised"
  ELSE IF exists THEN "skip"
  ELSE CASE m = "smart" -> "run"
         [] m = "middle" -> "probe"
         [] m = "styled" -> "mktmp"
         [] m = "grid" -> "probe"

\* Where process_one goes after deriving out_path: "skip" returns at once,
\* "raised" is build_grid_cmd's ValueError, the others name the next call.
Dispatch(exists, m, t) ==
  IF exists THEN "skip"
  ELSE CASE m = "smart" -> "run"
         [] m = "middle" -> "probe"
         [] m = "styled" -> "mktmp"
         [] m = "grid" -> IF ParseTile(t).ok THEN "probe" ELSE "raised"

\* -------------------------------------------------------------------- state
VARIABLES
  dir,         \* names of the entries of the input directory
  depsOk,      \* shutil.which finds both ffmpeg and ffprobe
  mode,        \* args.mode
  tile,        \* args.tile
  workers,     \* max_workers of the pool: max(1, args.jobs)
  outdir,      \* output directory: path -> "absent" | "old" | "new"
  mainPc,      \* where main is
  files,       \* main's sorted list of videos
  submitted,   \* number of tasks handed to ex.submit
  poolCreated, \* the ThreadPoolExecutor exists
  jpc,         \* per job: where its process_one call is
  result,      \* per job: the tuple process_one returned
  cmd,         \* per job: the local cmd of process_one
  tmpfiles,    \* jobs whose temporary title file is on disk
  tmpMade,     \* jobs that created a temporary title file
  probed,      \* jobs that invoked ffprobe
  launched,    \* jobs that invoked ffmpeg
  collected,   \* jobs whose fut.result() main has taken
  done,        \* main's counter of results
  errors,      \* main's counter of failures
  summary,     \* the final line, once printed
  noFilesMsg   \* the "no videos found" line was printed

vars == <<dir, depsOk, mode, tile, workers, outdir, mainPc, files, submitted,
          poolCreated, jpc, result, cmd, tmpfiles, tmpMade, probed, launched,
          collected, done, errors, summary, noFilesMsg>>

envVars == <<dir, depsOk, mode, tile, workers>>
mainVars == <<mainPc, files, submitted, poolCreated, collected, done, errors,
              summary, noFilesMsg>>

JobIds == 1..Len(list_videos(Universe))

NoResult == [ok |-> FALSE, msg |-> "none"]
NoSummary == [printed |-> FALSE, ok |-> 0, err |-> 0]

N == Len(files)
Jobs == 1..N
Finished == {"returned", "raised"}
Active == {j \in JobIds : jpc[j] \in {"probe", "mktmp", "run", "running", "hung"}}
Queued == {j \in JobIds : jpc[j] = "queued"}
Hung == {j \in JobIds : jpc[j] = "hung"}
OutOf(j) == OutPath(files[j], mode)

\* State shared by every initial state: main has not started.
InitRun ==
  /\ mainPc = "check_deps"
  /\ files = <<>>
  /\ submitted = 0
  /\ poolCreated = FALSE
  /\ jpc = [j \in JobIds |-> "none"]
  /\ result = [j \in JobIds |-> NoResult]
  /\ cmd = [j \in JobIds |-> NoCmd]
  /\ tmpfiles = {}
  /\ tmpMade = {}
  /\ probed = {}
  /\ launched = {}
  /\ collected = {}
  /\ done = 0
  /\ errors = 0
  /\ summary = NoSummary
  /\ noFilesMsg = FALSE

\* The output directory may already hold outputs of an earlier run.  Only the
\* paths this run derives are read, so only those vary.
InitOutdir ==
  outdir \in {o \in [OutPaths -> {"absent", "old"}] :
                \A p \in OutPaths :
                  o[p] = "old" => \E n \in dir : IsVideo(n) /\ p = OutPath(n, mode)}

Init ==
  /\ dir \in {d \in SUBSET Universe : Cardinality(d) <= MaxFiles}
  /\ depsOk \in BOOLEAN
  /\ mode \in Modes
  /\ tile \in (IF mode = "grid" THEN CoreTiles ELSE {DefaultTile})
  /\ \E jobs \in 0..MaxJobsArg : workers = Max(1, jobs)
  /\ InitOutdir
  /\ InitRun

\* --------------------------------------------------------------------- main
\* check_deps: sys.exit when a tool is missing
CheckDeps ==
  /\ mainPc = "check_deps"
  /\ mainPc' = IF depsOk THEN "list" ELSE "exit_nodeps"
  /\ UNCHANGED <<envVars, outdir, files, submitted, poolCreated, jpc, result,
                 cmd, tmpfiles, tmpMade, probed, launched, collected, done,
                 errors, summary, noFilesMsg>>

\* files = list_videos(in_dir); an empty list prints the message and returns
ListVideos ==
  /\ mainPc = "list"
  /\ files' = list_videos(dir)
  /\ IF list_videos(dir) = <<>>
     THEN /\ noFilesMsg' = TRUE
          /\ mainPc' = "done"
          /\ poolCreated' = FALSE
     ELSE /\ noFilesMsg' = FALSE
          /\ mainPc' = "submit"
          /\ poolCreated' = TRUE
  /\ UNCHANGED <<envVars, outdir, submitted, jpc, result, cmd, tmpfiles,
                 tmpMade, probed, launched, collected, done, errors, summary>>

\* one ex.submit of the for loop; after the last one main turns to as_completed
Submit ==
  /\ mainPc = "submit"
  /\ submitted < N
  /\ submitted' = submitted + 1
  /\ jpc' = [jpc EXCEPT ![submitted + 1] = "queued"]
  /\ mainPc' = IF submitted + 1 = N THEN "collect" ELSE "submit"
  /\ UNCHANGED <<envVars, outdir, files, poolCreated, result, cmd, tmpfiles,
                 tmpMade, probed, launched, collected, done, errors, summary,
                 noFilesMsg>>

\* one turn of the as_completed loop: fut.result() of a finished future either
\* yields the tuple or re-raises the job's exception, which leaves the loop
Collect(j) ==
  /\ mainPc = "collect"
  /\ j \in Jobs
  /\ j \notin collected
  /\ jpc[j] \in Finished
  /\ IF jpc[j] = "raised"
     THEN /\ mainPc' = "exiting"
          /\ UNCHANGED <<collected, done, errors>>
     ELSE /\ mainPc' = "collect"
          /\ collected' = collected \cup {j}
          /\ done' = done + 1
          /\ errors' = IF result[j].ok THEN errors ELSE errors + 1
  /\ UNCHANGED <<envVars, outdir, files, submitted, poolCreated, jpc, result,
                 cmd, tmpfiles, tmpMade, probed, launched, summary, noFilesMsg>>

\* the loop is exhausted, the with block ends, the summary is printed
Summary ==
  /\ mainPc = "collect"
  /\ collected = Jobs
  /\ mainPc' = "done"
  /\ summary' = [printed |-> TRUE, ok |-> N - errors, err |-> errors]
  /\ UNCHANGED <<envVars, outdir, files, submitted, poolCreated, jpc, result,
                 cmd, tmpfiles, tmpMade, probed, launched, collected, done,
                 errors, noFilesMsg>>

\* the exception leaves the with block: shutdown(wait=True) waits for every
\* submitted task, then main ends with the traceback
Crash ==
  /\ mainPc = "exiting"
  /\ \A j \in Jobs : jpc[j] \in Finished
  /\ mainPc' = "crashed"
  /\ UNCHANGED <<envVars, outdir, files, submitted, poolCreated, jpc, result,
                 cmd, tmpfiles, tmpMade, probed, launched, collected, done,
                 errors, summary, noFilesMsg>>

\* ------------------------------------------------------------------ workers
\* A free worker takes the oldest queued task and runs process_one up to its
\* first external call.
Start(j) ==
  /\ j \in Queued
  /\ \A k \in Queued : j <= k
  /\ Cardinality(Active) < workers
  /\ \E next \in {Dispatch(outdir[OutOf(j)] # "absent", mode, tile)} :
        /\ jpc' = [jpc EXCEPT ![j] = IF next = "skip" THEN "returned" ELSE next]
        /\ result' = [result EXCEPT ![j] =
                        IF next = "skip" THEN [ok |-> TRUE, msg |-> "skip (exists)"]
                        ELSE NoResult]
        /\ cmd' = [cmd EXCEPT ![j] = IF next = "run" THEN build_smart_cmd ELSE NoCmd]
  /\ UNCHANGED <<envVars, mainVars, outdir, tmpfiles, tmpMade, probed, launched>>

\* ffprobe_duration inside build_middle_cmd or build_grid_cmd, then the command
Probe(j) ==
  /\ jpc[j] = "probe"
  /\ \E p \in {IF mode = "grid" THEN ParseTile(tile) ELSE BadTile} :
       \E raw \in ProbeOutputs :
         \E dur \in {ffprobe_duration(raw)} :
           cmd' = [cmd EXCEPT ![j] =
                     IF mode = "grid" THEN build_grid_cmd(p, dur)
                     ELSE build_middle_cmd(dur)]
  /\ probed' = probed \cup {j}
  /\ jpc' = [jpc EXCEPT ![j] = "run"]
  /\ UNCHANGED <<envVars, mainVars, outdir, result, tmpfiles, tmpMade, launched>>

\* build_styled_cmd: the temporary file is created, written and closed; the
\* creation or the write may raise, and nothing catches that in process_one
StyledBuild(j) ==
  /\ jpc[j] = "mktmp"
  /\ \E o \in {"ok", "create_fails", "write_fails"} :
       /\ tmpfiles' = IF o = "create_fails" THEN tmpfiles ELSE tmpfiles \cup {j}
       /\ tmpMade' = IF o = "create_fails" THEN tmpMade ELSE tmpMade \cup {j}
       /\ jpc' = [jpc EXCEPT ![j] = IF o = "ok" THEN "run" ELSE "raised"]
       /\ cmd' = [cmd EXCEPT ![j] = IF o = "ok" THEN styled_cmd ELSE NoCmd]
  /\ UNCHANGED <<envVars, mainVars, outdir, result, probed, launched>>

\* run(cmd) hands the command to subprocess.run; cmd is not read again
RunStart(j) ==
  /\ jpc[j] = "run"
  /\ launched' = launched \cup {j}
  /\ jpc' = [jpc EXCEPT ![j] = "running"]
  /\ cmd' = [cmd EXCEPT ![j] = NoCmd]
  /\ UNCHANGED <<envVars, mainVars, outdir, result, tmpfiles, tmpMade, probed>>

\* subprocess.run returns or raises, run turns that into (ok, msg), and
\* process_one returns; in styled mode the finally clause removes the file
RunEnd(j) ==
  /\ jpc[j] = "running"
  /\ \E o \in {"exit0", "nonzero", "launch_error"} :
       /\ result' = [result EXCEPT ![j] =
                       CASE o = "exit0" -> [ok |-> TRUE, msg |-> ""]
                         [] o = "nonzero" -> [ok |-> FALSE, msg |-> "Command failed"]
                         [] o = "launch_error" -> [ok |-> FALSE, msg |-> "Error"]]
       /\ outdir' = IF o = "exit0" THEN [outdir EXCEPT ![OutOf(j)] = "new"] ELSE outdir
  /\ tmpfiles' = tmpfiles \ {j}
  /\ jpc' = [jpc EXCEPT ![j] = "returned"]
  /\ UNCHANGED <<envVars, mainVars, cmd, tmpMade, probed, launched>>

\* the external process never terminates: no timeout is set anywhere
Hang(j) ==
  /\ jpc[j] \in {"probe", "running"}
  /\ jpc' = [jpc EXCEPT ![j] = "hung"]
  /\ probed' = IF jpc[j] = "probe" THEN probed \cup {j} ELSE probed
  /\ UNCHANGED <<envVars, mainVars, outdir, result, cmd, tmpfiles, tmpMade, launched>>

Next ==
  \/ CheckDeps
  \/ ListVideos
  \/ Submit
  \/ \E j \in JobIds : Collect(j)
  \/ Summary
  \/ Crash
  \/ \E j \in JobIds : Start(j)
  \/ \E j \in JobIds : Probe(j)
  \/ \E j \in JobIds : StyledBuild(j)
  \/ \E j \in JobIds : RunStart(j)
  \/ \E j \in JobIds : RunEnd(j)
  \/ \E j \in JobIds : Hang(j)

Spec == Init /\ [][Next]_vars

\* Threads that can run do run: main takes its next step if it stays possible,
\* and so does every job a worker holds or can take.  An external process may
\* still never end (Hang carries no fairness).
MainStep == CheckDeps \/ ListVideos \/ Submit \/ Summary \/ Crash \/ \E j \in JobIds : Collect(j)
JobStep(j) == Start(j) \/ Probe(j) \/ StyledBuild(j) \/ RunStart(j) \/ RunEnd(j)

Fairness == WF_vars(MainStep) /\ \A j \in JobIds : WF_vars(JobStep(j))

\* A run over three videos with every tool present and an empty output
\* directory, in every mode and pool size.
FairInit ==
  /\ dir = {<<"a", ".", "MOV">>, <<"a", ".", "mp4">>, <<"b", ".", "mkv">>}
  /\ depsOk = TRUE
  /\ mode \in Modes
  /\ tile \in (IF mode = "grid" THEN CoreTiles ELSE {DefaultTile})
  /\ \E jobs \in 0..MaxJobsArg : workers = Max(1, jobs)
  /\ outdir = [p \in OutPaths |-> "absent"]
  /\ InitRun

FairSpec == FairInit /\ [][Next]_vars /\ Fairness

\* Grid mode on one video, over every tile spec of up to MaxTileLen characters.
GridInit ==
  /\ dir = {<<"a", ".", "mp4">>}
  /\ depsOk = TRUE
  /\ mode = "grid"
  /\ tile \in AllTiles
  /\ workers = 1
  /\ InitOutdir
  /\ InitRun

GridNext ==
  \/ CheckDeps
  \/ ListVideos
  \/ Submit
  \/ \E j \in JobIds : Collect(j)
  \/ Summary
  \/ Crash
  \/ \E j \in JobIds : Start(j)
  \/ \E j \in JobIds : Probe(j)
  \/ \E j \in JobIds : RunStart(j)
  \/ \E j \in JobIds : RunEnd(j)
  \/ \E j \in JobIds : Hang(j)

GridSpec == GridInit /\ [][GridNext]_vars

\* ------------------------------------------------------------------- claims
\* A digit string that denotes a positive integer.
PosInt(s) ==
  /\ s # <<>>
  /\ \A i \in 1..Len(s) : s[i] \in Digits
  /\ \E i \in 1..Len(s) : s[i] # "0"

\* Positions that cut the spec into two positive integers around an x.
Cuts(t) ==
  {i \in 1..Len(t) : /\ t[i] \in {"x", "X"}
                     /\ PosInt(SubSeq(t, 1, i - 1))
                     /\ PosInt(SubSeq(t, i + 1, Len(t)))}

\* The tile spec is two positive integers separated by an x (either case).
WellFormedTile(t) == Cuts(t) # {}

TileCols(t) == LET i == CHOOSE c \in Cuts(t) : TRUE IN DigitsVal(SubSeq(t, 1, i - 1))
TileRows(t) == LET i == CHOOSE c \in Cuts(t) : TRUE IN DigitsVal(SubSeq(t, i + 1, Len(t)))

MalformedGridRun == mode = "grid" /\ ~WellFormedTile(tile)

SkipResult == [ok |-> TRUE, msg |-> "skip (exists)"]

\* C1: in grid mode with a malformed tile spec, a job whose output is absent
\* ends as a failure result (never as an exception that leaves the job), and
\* main is never thrown out of its collection loop.
C1_MalformedTileIsPerJobFailure ==
  MalformedGridRun =>
    /\ mainPc \notin {"exiting", "crashed"}
    /\ \A j \in JobIds :
         /\ jpc[j] # "raised"
         /\ (jpc[j] = "returned" /\ outdir[OutOf(j)] = "absent") => ~result[j].ok

\* C2: when main has ended with N > 0 videos it has collected exactly N
\* results, one per job; with N = 0 it ended with the message, without a pool
\* and without a submitted job.
C2_ExactlyNResults ==
  /\ (mainPc \in {"done", "crashed"} /\ N > 0) => (done = N /\ collected = Jobs)
  /\ (mainPc = "done" /\ N = 0) =>
       (noFilesMsg /\ ~poolCreated /\ submitted = 0 /\ \A j \in JobIds : jpc[j] = "none")

\* C3: no two jobs of a run derive the same output path.
C3_OutputPathsUnique ==
  \A i \in Jobs : \A j \in Jobs : i # j => OutOf(i) # OutOf(j)

\* C4: a job that has returned or raised has left no temporary title file, and
\* none remains once main has ended.
C4_TempFileDeleted ==
  /\ \A j \in JobIds : jpc[j] \in Finished => j \notin tmpfiles
  /\ mainPc \in {"done", "crashed"} => tmpfiles = {}

\* C5: a job that starts while its output path exists returns success with
\* "skip (exists)" in that very step, which touches neither the output
\* directory nor any external tool or temporary file; a skipped job never
\* probes, launches or creates a file, and a pre-existing output is never
\* rewritten nor its job's tools invoked.
C5_SkipDoesNoWork ==
  [][ /\ \A j \in JobIds :
           (jpc[j] = "queued" /\ jpc'[j] # "queued" /\ outdir[OutOf(j)] # "absent") =>
             /\ jpc'[j] = "returned"
             /\ result'[j] = SkipResult
             /\ outdir' = outdir
             /\ tmpfiles' = tmpfiles /\ tmpMade' = tmpMade
             /\ probed' = probed /\ launched' = launched
      /\ \A j \in JobIds :
           result'[j] = SkipResult =>
             (jpc'[j] = "returned" /\ j \notin (probed' \cup launched' \cup tmpMade'))
      /\ \A p \in OutPaths : outdir[p] = "old" => outdir'[p] = "old"
      /\ \A j \in JobIds :
           (j <= Len(files') /\ outdir'[OutPath(files'[j], mode')] = "old") =>
             j \notin (probed' \cup launched' \cup tmpMade')
    ]_vars

C5_Witness ==
  \E j \in Jobs : result[j] = SkipResult /\ j \in collected /\ outdir[OutOf(j)] = "old"

\* C6: with at least one video, main never ends without the summary line, and
\* the line's two counts add up to the number of videos.
C6_AlwaysSummary ==
  (mainPc \in {"done", "crashed"} /\ N > 0) =>
    (summary.printed /\ summary.ok + summary.err = N)

\* C7: with a pool of two or more workers and exactly one job hung, every
\* other submitted job's result is eventually collected by main (unless that
\* job or a further one hangs as well).
C7_OthersStillCollected ==
  \A j \in JobIds :
    (workers >= 2 /\ Cardinality(Hung) = 1 /\ jpc[j] \notin {"none", "hung"})
      ~> (j \in collected \/ jpc[j] = "hung" \/ Cardinality(Hung) >= 2)

C9_GridRate ==
  \A j \in JobIds :
    cmd[j].kind = "grid" =>
      LET c == cmd[j]
      IN /\ WellFormedTile(tile)
         /\ c.cols = TileCols(tile) /\ c.rows = TileRows(tile)
         /\ c.total = TileCols(tile) * TileRows(tile)
         /\ c.fps >= 1
         /\ c.dur.num <= 0 => c.fps = 1
         /\ c.dur.num > 0 =>
              /\ c.fps * c.dur.num >= c.total * c.dur.den
              /\ c.fps > 1 => (c.fps - 1) * c.dur.num < c.total * c.dur.den

\* a clip shorter than total seconds whose quotient total / D is no integer
C9_Witness ==
  \E j \in JobIds :
    /\ cmd[j].kind = "grid" /\ jpc[j] = "run"
    /\ cmd[j].dur.num > 0
    /\ cmd[j].dur.num < cmd[j].total * cmd[j].dur.den
    /\ cmd[j].fps * cmd[j].dur.num > cmd[j].total * cmd[j].dur.den

\* C10: in grid mode with a malformed tile spec, a finished job whose output
\* exists has returned "skip (exists)", and one whose output is absent raised.
C10_SkipBeforeValidation ==
  MalformedGridRun =>
    \A j \in JobIds :
      jpc[j] \in Finished =>
        IF outdir[OutOf(j)] # "absent"
        THEN jpc[j] = "returned" /\ result[j] = SkipResult
        ELSE jpc[j] = "raised"

C10_Witness ==
  /\ MalformedGridRun
  /\ \E i \in Jobs : \E j \in Jobs :
       /\ jpc[i] = "raised" /\ outdir[OutOf(i)] = "absent"
       /\ jpc[j] = "returned" /\ result[j] = SkipResult /\ outdir[OutOf(j)] = "old"

====
